---- MODULE Spec2Model ----
(***************************************************************************)
(* Model of the node graph of src/src/graph/node.rs: the Graph aggregate   *)
(* (a node arena and a flat slot arena), the Slot link bookkeeping and the *)
(* four public mutations add_node, link, unlink and unlink_all, the slot   *)
(* lookups, and the node variants with their eval.                         *)
(*                                                                         *)
(* A NodeId / SlotId is modelled by its one-based value (NonZeroU32), so   *)
(* index() = id - 1 and the slot with SlotId i is slots[i].                *)
(* A failed assert! / unwrap is a panic: the call does not complete, the   *)
(* state keeps what the call had already written, and `panicked` is set.   *)
(* No further call is made on a graph whose call panicked.                 *)
(***************************************************************************)
EXTENDS Naturals, Sequences, FiniteSets

VARIABLES
    nodes,      \* Graph::nodes : Vec<Box<dyn Node>>
    slots,      \* Graph::slots : Vec<Slot>
    last,       \* the last call made on the graph: its name and arguments
    panicked,   \* TRUE once a call has terminated by a panic
    node,       \* a node value held by the client, outside any graph
    module,     \* the expression Module handed to Node::eval
    ret,        \* what the last query or eval call returned
    superseded  \* history: the pair <<O1, I>> being followed, if any, in a
                \* set: link(O2, I) was called with O2 # O1 while I's link
                \* was O1, and O1 has listed I ever since

graphVars == <<nodes, slots, last, panicked>>
nodeVars == <<node, module>>
vars == <<nodes, slots, last, panicked, node, module, ret, superseded>>

----------------------------------------------------------------------------
(* Bounds of the model.                                                    *)

\* Largest number of slots in the slot arena.
MaxSlots == 4
\* Largest number of nodes in the node arena.
MaxNodes == 3
\* How many of the node values of NodeChoices add_node may be called with.
NumNodeChoices == 4
\* Largest number of slots in the slot arena when calls pass arbitrary ids.
MaxSlotsAny == 3
\* Largest number of expressions recorded in the Module handed to eval.
MaxExprs == 3
\* Largest number of input handles passed to eval.
MaxInputs == 3

----------------------------------------------------------------------------
(* Slot definitions and node variants.                                     *)

\* SlotDef::input
SlotDefInput(name, value_type) ==
    [name |-> name, dir |-> "Input", value_type |-> value_type]

\* SlotDef::output
SlotDefOutput(name, value_type) ==
    [name |-> name, dir |-> "Output", value_type |-> value_type]

\* Attribute::name of the external attribute vocabulary.
AttributeName(attr) == attr

\* Attribute::value_type of the external attribute vocabulary.
AttributeValueType(attr) == IF attr = "age" THEN "Float" ELSE "Vec3"

\* Some attributes of the external attribute vocabulary.
Attributes == {"position", "velocity", "age"}

\* BuiltInOperator::name of the external expression vocabulary.
BuiltInName(op) == IF op = "Time" THEN "time" ELSE "delta_time"

\* BuiltInOperator::value_type of the external expression vocabulary.
BuiltInValueType(op) == "Float"

\* AddNode::default, SubNode::default, MulNode::default, DivNode::default
BinarySlots ==
    << SlotDefInput("lhs", "None"),
       SlotDefInput("rhs", "None"),
       SlotDefOutput("result", "None") >>

\* AttributeNode::new
AttributeSlots(attr) ==
    << SlotDefOutput(AttributeName(attr), AttributeValueType(attr)) >>

\* TimeNode::default
TimeSlots ==
    << SlotDefOutput(BuiltInName("Time"), BuiltInValueType("Time")),
       SlotDefOutput(BuiltInName("DeltaTime"), BuiltInValueType("DeltaTime")) >>

\* NormalizeNode::default (both slot definitions are built by SlotDef::output)
NormalizeSlots ==
    << SlotDefOutput("in", "None"), SlotDefOutput("out", "None") >>

\* A node value as its constructor builds it: the variant, the `attr` field
\* of an AttributeNode ("none" for the other variants) and the `slots` field.
MkNode(kind, attr) ==
    [kind |-> kind,
     attr |-> attr,
     slots |-> CASE kind \in {"Add", "Sub", "Mul", "Div"} -> BinarySlots
                 [] kind = "Attribute" -> AttributeSlots(attr)
                 [] kind = "Time" -> TimeSlots
                 [] kind = "Normalize" -> NormalizeSlots]

\* Node::slots of each variant: the `slots` field
NodeSlots(n) == n.slots

\* The node values add_node is called with, the first NumNodeChoices of them.
NodeChoices ==
    << MkNode("Add", "none"),
       MkNode("Attribute", "position"),
       MkNode("Time", "none"),
       MkNode("Normalize", "none"),
       MkNode("Mul", "none"),
       MkNode("Attribute", "velocity"),
       MkNode("Sub", "none"),
       MkNode("Div", "none") >>

\* AttributeNode::attr
attr(n) == n.attr

\* AttributeNode::set_attr: assigns the `attr` field, and nothing else
set_attr(n, a) == [n EXCEPT !.attr = a]

NodeInputs ==
    { NodeChoices[k] : k \in 1..(IF NumNodeChoices < Len(NodeChoices)
                                 THEN NumNodeChoices ELSE Len(NodeChoices)) }

----------------------------------------------------------------------------
(* Slot.                                                                   *)

\* Slot::new
SlotNew(node_id, slot_id, slot_def) ==
    [node_id |-> node_id, id |-> slot_id, def |-> slot_def, linked_slots |-> <<>>]

\* Slot::is_input
is_input(slot) == slot.def.dir = "Input"

\* Slot::is_output
is_output(slot) == slot.def.dir = "Output"

\* Vec::contains
Contains(seq, x) == \E k \in 1..Len(seq) : seq[k] = x

\* Iterator::position: the one-based place of the first x in seq, 0 for None.
Position(seq, x) ==
    IF Contains(seq, x)
    THEN CHOOSE k \in 1..Len(seq) :
            seq[k] = x /\ \A j \in 1..(k - 1) : seq[j] # x
    ELSE 0

\* Vec::remove
RemoveAt(seq, k) == SubSeq(seq, 1, k - 1) \o SubSeq(seq, k + 1, Len(seq))

\* link_to without the contains() test: every call pushes.
link_to_always_push(slot, input) ==
    [slot EXCEPT !.linked_slots = Append(@, input)]

\* Slot::link_to (the caller has asserted is_output)
link_to(slot, input) ==
    IF ~Contains(slot.linked_slots, input)
    THEN [slot EXCEPT !.linked_slots = Append(@, input)]
    ELSE slot

\* Slot::unlink_from (the caller has asserted is_output): the slot afterwards
\* and the returned bool.
unlink_from(slot, input) ==
    LET index == Position(slot.linked_slots, input) IN
    IF index # 0
    THEN [slot |-> [slot EXCEPT !.linked_slots = RemoveAt(@, index)],
          removed |-> TRUE]
    ELSE [slot |-> slot, removed |-> FALSE]

\* link_input that pushes onto a non-empty link set instead of overwriting.
link_input_push(slot, output) ==
    [slot EXCEPT !.linked_slots = Append(@, output)]

\* link_input that leaves a non-empty link set as it is.
link_input_keep_first(slot, output) ==
    IF slot.linked_slots = <<>>
    THEN [slot EXCEPT !.linked_slots = Append(@, output)]
    ELSE slot

\* Slot::link_input (the caller has asserted is_input)
link_input(slot, output) ==
    IF slot.linked_slots = <<>>
    THEN [slot EXCEPT !.linked_slots = Append(@, output)]
    ELSE [slot EXCEPT !.linked_slots[1] = output]

\* Slot::unlink_input (the caller has asserted is_input)
unlink_input(slot) == [slot EXCEPT !.linked_slots = <<>>]

----------------------------------------------------------------------------
(* Graph: the operations as functions of the slot arena.  Each returns the *)
(* arena afterwards and whether the call panicked.                         *)

Done(s) == [slots |-> s, panicked |-> FALSE]
Panic(s) == [slots |-> s, panicked |-> TRUE]

\* get_slot_mut asserting index + 1 < self.slots.len().
InRange_strict(s, id) == id >= 1 /\ id < Len(s)

\* Graph::get_slot_mut: the assertion index < self.slots.len()
InRange(s, id) == id >= 1 /\ id - 1 < Len(s)

\* The slot loop of add_node_impl with the SlotId taken from the zero-based
\* arena length, without the + 1.
RECURSIVE PushSlots_zero_based(_, _, _)
PushSlots_zero_based(s, node_id, defs) ==
    IF defs = <<>>
    THEN s
    ELSE PushSlots_zero_based(Append(s, SlotNew(node_id, Len(s), Head(defs))),
                              node_id, Tail(defs))

\* The slot loop of add_node_impl inserting each new slot at the front of the
\* arena instead of pushing it.
RECURSIVE PushSlots_front(_, _, _)
PushSlots_front(s, node_id, defs) ==
    IF defs = <<>>
    THEN s
    ELSE PushSlots_front(<<SlotNew(node_id, Len(s) + 1, Head(defs))>> \o s,
                         node_id, Tail(defs))

\* Graph::add_node_impl: the slot arena after pushing one Slot per SlotDef
RECURSIVE PushSlots(_, _, _)
PushSlots(s, node_id, defs) ==
    IF defs = <<>>
    THEN s
    ELSE PushSlots(Append(s, SlotNew(node_id, Len(s) + 1, Head(defs))),
                   node_id, Tail(defs))

\* The node id taken from the zero-based index, without the + 1.
NewNodeId_index(n) == Len(n)

\* Graph::add_node_impl: the returned NodeId
NewNodeId(n) == Len(n) + 1

\* link without the assertion on the direction of the input slot.
link_unchecked_input(s, output, input) ==
    IF ~InRange(s, output) THEN Panic(s)
    ELSE IF ~is_output(s[output]) THEN Panic(s)
    ELSE LET s1 == [s EXCEPT ![output] = link_to(@, input)] IN
         IF ~InRange(s1, input) THEN Panic(s1)
         ELSE Done([s1 EXCEPT ![input] = link_input(@, output)])

\* link that first removes the input from the output it was linked to.
link_retracting(s, output, input) ==
    IF ~InRange(s, output) THEN Panic(s)
    ELSE IF ~is_output(s[output]) THEN Panic(s)
    ELSE LET s1 == [s EXCEPT ![output] = link_to(@, input)] IN
         IF ~InRange(s1, input) THEN Panic(s1)
         ELSE IF ~is_input(s1[input]) THEN Panic(s1)
         ELSE LET old == s1[input].linked_slots
                  s2 == IF old # <<>> /\ old[1] # output
                        THEN [s1 EXCEPT ![old[1]] = unlink_from(@, input).slot]
                        ELSE s1 IN
              Done([s2 EXCEPT ![input] = link_input(@, output)])

\* Graph::link
link(s, output, input) ==
    IF ~InRange(s, output) THEN Panic(s)
    ELSE IF ~is_output(s[output]) THEN Panic(s)
    ELSE LET s1 == [s EXCEPT ![output] = link_to(@, input)] IN
         IF ~InRange(s1, input) THEN Panic(s1)
         ELSE IF ~is_input(s1[input]) THEN Panic(s1)
         ELSE Done([s1 EXCEPT ![input] = link_input(@, output)])

\* unlink that clears the input whatever unlink_from returned.
unlink_unconditional(s, output, input) ==
    IF ~InRange(s, output) THEN Panic(s)
    ELSE IF ~is_output(s[output]) THEN Panic(s)
    ELSE LET s1 == [s EXCEPT ![output] = unlink_from(@, input).slot] IN
         IF ~InRange(s1, input) THEN Panic(s1)
         ELSE IF ~is_input(s1[input]) THEN Panic(s1)
         ELSE Done([s1 EXCEPT ![input] = unlink_input(@)])

\* unlink that removes the input slot from the arena instead of clearing its
\* link set.
unlink_removes_slot(s, output, input) ==
    IF ~InRange(s, output) THEN Panic(s)
    ELSE IF ~is_output(s[output]) THEN Panic(s)
    ELSE LET r == unlink_from(s[output], input)
             s1 == [s EXCEPT ![output] = r.slot] IN
         IF r.removed
         THEN IF ~InRange(s1, input) THEN Panic(s1)
              ELSE IF ~is_input(s1[input]) THEN Panic(s1)
              ELSE Done(RemoveAt(s1, input))
         ELSE Done(s1)

\* Graph::unlink
unlink(s, output, input) ==
    IF ~InRange(s, output) THEN Panic(s)
    ELSE IF ~is_output(s[output]) THEN Panic(s)
    ELSE LET r == unlink_from(s[output], input)
             s1 == [s EXCEPT ![output] = r.slot] IN
         IF r.removed
         THEN IF ~InRange(s1, input) THEN Panic(s1)
              ELSE IF ~is_input(s1[input]) THEN Panic(s1)
              ELSE Done([s1 EXCEPT ![input] = unlink_input(@)])
         ELSE Done(s1)

\* Graph::unlink_all: the loop over the taken linked_slots
RECURSIVE UnlinkRemotes(_, _, _)
UnlinkRemotes(s, slot_id, linked) ==
    IF linked = <<>>
    THEN Done(s)
    ELSE LET remote_id == Head(linked) IN
         IF ~InRange(s, remote_id) THEN Panic(s)
         ELSE IF is_input(s[remote_id])
         THEN UnlinkRemotes([s EXCEPT ![remote_id] = unlink_input(@)],
                            slot_id, Tail(linked))
         ELSE UnlinkRemotes([s EXCEPT ![remote_id] = unlink_from(@, slot_id).slot],
                            slot_id, Tail(linked))

\* Graph::unlink_all
unlink_all(s, slot_id) ==
    IF ~InRange(s, slot_id) THEN Panic(s)
    ELSE UnlinkRemotes([s EXCEPT ![slot_id].linked_slots = <<>>],
                       slot_id, s[slot_id].linked_slots)

\* Graph::slots: the SlotIds of the slots owned by node_id, in arena order
RECURSIVE node_slots(_, _)
node_slots(s, node_id) ==
    IF s = <<>>
    THEN <<>>
    ELSE (IF Head(s).node_id = node_id THEN <<Head(s).id>> ELSE <<>>)
         \o node_slots(Tail(s), node_id)

\* input_slots that does not look at the owner of a slot.
RECURSIVE input_slots_any_node(_, _)
input_slots_any_node(s, node_id) ==
    IF s = <<>>
    THEN <<>>
    ELSE (IF is_input(Head(s)) THEN <<Head(s).id>> ELSE <<>>)
         \o input_slots_any_node(Tail(s), node_id)

\* Graph::input_slots: the ids of the input slots owned by node_id
RECURSIVE input_slots(_, _)
input_slots(s, node_id) ==
    IF s = <<>>
    THEN <<>>
    ELSE (IF Head(s).node_id = node_id /\ is_input(Head(s))
          THEN <<Head(s).id>> ELSE <<>>)
         \o input_slots(Tail(s), node_id)

\* Graph::output_slots: the ids of the output slots owned by node_id
RECURSIVE output_slots(_, _)
output_slots(s, node_id) ==
    IF s = <<>>
    THEN <<>>
    ELSE (IF Head(s).node_id = node_id /\ is_output(Head(s))
          THEN <<Head(s).id>> ELSE <<>>)
         \o output_slots(Tail(s), node_id)

\* The value of an Option<SlotId> that is None (SlotIds start at 1).
None == 0

\* A lookup that returns the last match instead of the first.
RECURSIVE find_slot_last(_, _, _, _)
find_slot_last(s, node_id, dir, name) ==
    IF s = <<>>
    THEN None
    ELSE IF /\ (node_id = 0 \/ s[Len(s)].node_id = node_id)
            /\ (dir = "Any" \/ s[Len(s)].def.dir = dir)
            /\ s[Len(s)].def.name = name
         THEN s[Len(s)].id
         ELSE find_slot_last(SubSeq(s, 1, Len(s) - 1), node_id, dir, name)

\* Iterator::find over the arena, mapped to the slot's id: the id of the
\* first slot of s that has the given direction ("Any" for either), is owned
\* by node_id (0 for any node) and has the given name; None when there is none.
RECURSIVE find_slot(_, _, _, _)
find_slot(s, node_id, dir, name) ==
    IF s = <<>>
    THEN None
    ELSE IF /\ (node_id = 0 \/ Head(s).node_id = node_id)
            /\ (dir = "Any" \/ Head(s).def.dir = dir)
            /\ Head(s).def.name = name
         THEN Head(s).id
         ELSE find_slot(Tail(s), node_id, dir, name)

\* Graph::input_slot
input_slot(s, node_id, name) == find_slot(s, node_id, "Input", name)

\* Graph::output_slot
output_slot(s, node_id, name) == find_slot(s, node_id, "Output", name)

\* Graph::get_slot_id
get_slot_id(s, name) == find_slot(s, 0, "Any", name)

----------------------------------------------------------------------------
(* Node::eval.  The Module is the external expression builder: a sequence  *)
(* of recorded expressions, an ExprHandle being the one-based place of an  *)
(* expression in it.  Each builder call records one expression and returns *)
(* its handle.                                                             *)

Expr(op, arg, args) == [op |-> op, arg |-> arg, args |-> args]

\* Module::lit
ModuleLit(m, value) == Append(m, Expr("lit", value, <<>>))
\* Module::add, Module::sub, Module::mul, Module::div
ModuleBinary(m, op, left, right) == Append(m, Expr(op, "none", <<left, right>>))
\* Module::attr
ModuleAttr(m, a) == Append(m, Expr("attr", AttributeName(a), <<>>))
\* Module::builtin
ModuleBuiltin(m, op) == Append(m, Expr("builtin", BuiltInName(op), <<>>))
\* Module::normalize
ModuleNormalize(m, input) == Append(m, Expr("normalize", "none", <<input>>))

\* Err(ExprError::GraphEvalError(..)): no output, the module as it was
EvalErr(m) == [ok |-> FALSE, outputs |-> <<>>, module |-> m]
\* Ok(outputs)
EvalOk(m, outputs) == [ok |-> TRUE, outputs |-> outputs, module |-> m]

\* AddNode::eval, SubNode::eval, MulNode::eval, DivNode::eval
BinaryNodeEval(op, m, inputs) ==
    IF Len(inputs) # 2
    THEN EvalErr(m)
    ELSE LET left == inputs[1]
             right == inputs[2]
             m1 == ModuleBinary(m, op, left, right) IN
         EvalOk(m1, <<Len(m1)>>)

\* AttributeNode::eval
AttributeNodeEval(n, m, inputs) ==
    IF inputs # <<>>
    THEN EvalErr(m)
    ELSE LET m1 == ModuleAttr(m, n.attr) IN EvalOk(m1, <<Len(m1)>>)

\* TimeNode::eval
TimeNodeEval(m, inputs) ==
    IF inputs # <<>>
    THEN EvalErr(m)
    ELSE LET m1 == ModuleBuiltin(m, "Time")
             m2 == ModuleBuiltin(m1, "DeltaTime") IN
         EvalOk(m2, <<Len(m1), Len(m2)>>)

\* NormalizeNode::eval accepting any non-empty input list.
NormalizeNodeEval_nonempty(m, inputs) ==
    IF inputs = <<>>
    THEN EvalErr(m)
    ELSE LET m1 == ModuleNormalize(m, inputs[1]) IN EvalOk(m1, <<Len(m1)>>)

\* NormalizeNode::eval
NormalizeNodeEval(m, inputs) ==
    IF Len(inputs) # 1
    THEN EvalErr(m)
    ELSE LET input == inputs[1]
             m1 == ModuleNormalize(m, input) IN
         EvalOk(m1, <<Len(m1)>>)

\* Node::eval, dispatched on the variant
NodeEval(n, m, inputs) ==
    CASE n.kind = "Add" -> BinaryNodeEval("add", m, inputs)
      [] n.kind = "Sub" -> BinaryNodeEval("sub", m, inputs)
      [] n.kind = "Mul" -> BinaryNodeEval("mul", m, inputs)
      [] n.kind = "Div" -> BinaryNodeEval("div", m, inputs)
      [] n.kind = "Attribute" -> AttributeNodeEval(n, m, inputs)
      [] n.kind = "Time" -> TimeNodeEval(m, inputs)
      [] n.kind = "Normalize" -> NormalizeNodeEval(m, inputs)

----------------------------------------------------------------------------
(* The state machine.                                                      *)

\* The SlotIds the graph has handed out, by the direction of their slot.
SlotIds == 1..Len(slots)
OutputIds == {id \in SlotIds : is_output(slots[id])}
InputIds == {id \in SlotIds : is_input(slots[id])}

NoCall == [op |-> "new", a |-> 0, b |-> 0]

\* No node held, and no query or eval made yet.
NoNode == MkNode("Time", "none")
NoRet == [op |-> "none"]

\* Graph::new
GraphNew ==
    /\ nodes = <<>>
    /\ slots = <<>>
    /\ last = NoCall
    /\ panicked = FALSE

\* Graph::new, Module::default
Init ==
    /\ GraphNew
    /\ node = NoNode
    /\ module = <<>>
    /\ ret = NoRet
    /\ superseded = {}

\* One call of Graph::add_node with the given node value.
AddNodeCall(n) ==
    /\ slots' = PushSlots(slots, NewNodeId(nodes), NodeSlots(n))
    /\ nodes' = Append(nodes, n)
    /\ last' = [op |-> "add_node", a |-> NewNodeId(nodes), b |-> 0]
    /\ panicked' = FALSE

\* One call of Graph::link with the given arguments.
LinkCall(output, input) ==
    LET r == link(slots, output, input) IN
    /\ slots' = r.slots
    /\ panicked' = r.panicked
    /\ last' = [op |-> "link", a |-> output, b |-> input]
    /\ UNCHANGED nodes

\* One call of Graph::unlink with the given arguments.
UnlinkCall(output, input) ==
    LET r == unlink(slots, output, input) IN
    /\ slots' = r.slots
    /\ panicked' = r.panicked
    /\ last' = [op |-> "unlink", a |-> output, b |-> input]
    /\ UNCHANGED nodes

\* One call of Graph::unlink_all with the given argument.
UnlinkAllCall(slot_id) ==
    LET r == unlink_all(slots, slot_id) IN
    /\ slots' = r.slots
    /\ panicked' = r.panicked
    /\ last' = [op |-> "unlink_all", a |-> slot_id, b |-> 0]
    /\ UNCHANGED nodes

(* The calls of a client that passes the ids the graph handed out, with an  *)
(* output slot's id for `output` and an input slot's id for `input`.        *)

AddNode ==
    /\ ~panicked
    /\ Len(nodes) < MaxNodes
    /\ \E n \in NodeInputs :
        /\ Len(slots) + Len(NodeSlots(n)) <= MaxSlots
        /\ AddNodeCall(n)
    /\ UNCHANGED <<node, module, ret, superseded>>

Link ==
    /\ ~panicked
    /\ \E output \in OutputIds, input \in InputIds : LinkCall(output, input)
    /\ UNCHANGED <<node, module, ret, superseded>>

Unlink ==
    /\ ~panicked
    /\ \E output \in OutputIds, input \in InputIds : UnlinkCall(output, input)
    /\ UNCHANGED <<node, module, ret, superseded>>

UnlinkAll ==
    /\ ~panicked
    /\ \E slot_id \in SlotIds : UnlinkAllCall(slot_id)
    /\ UNCHANGED <<node, module, ret, superseded>>

Next == AddNode \/ Link \/ Unlink \/ UnlinkAll

Spec == Init /\ [][Next]_vars

(* The calls of a client that passes any SlotId: every id the graph handed  *)
(* out, whatever its direction, and the first id past the end of the arena. *)

AnySlotIds == 1..(Len(slots) + 1)

AddNodeAny ==
    /\ ~panicked
    /\ Len(nodes) < MaxNodes
    /\ \E n \in NodeInputs :
        /\ Len(slots) + Len(NodeSlots(n)) <= MaxSlotsAny
        /\ AddNodeCall(n)
    /\ UNCHANGED <<node, module, ret, superseded>>

LinkAny ==
    /\ ~panicked
    /\ \E output \in AnySlotIds, input \in AnySlotIds : LinkCall(output, input)
    /\ UNCHANGED <<node, module, ret, superseded>>

UnlinkAny ==
    /\ ~panicked
    /\ \E output \in AnySlotIds, input \in AnySlotIds : UnlinkCall(output, input)
    /\ UNCHANGED <<node, module, ret, superseded>>

UnlinkAllAny ==
    /\ ~panicked
    /\ \E slot_id \in AnySlotIds : UnlinkAllCall(slot_id)
    /\ UNCHANGED <<node, module, ret, superseded>>

NextAny == AddNodeAny \/ LinkAny \/ UnlinkAny \/ UnlinkAllAny

SpecAny == Init /\ [][NextAny]_vars

(* A node value held by the client, before it is given to a graph: built by *)
(* its constructor, then evaluated against a Module and, for an             *)
(* AttributeNode, changed by set_attr.                                      *)

\* The node values the constructors build.
NodeValues ==
    {MkNode(k, "none") : k \in {"Add", "Sub", "Mul", "Div", "Time", "Normalize"}}
        \cup {MkNode("Attribute", a) : a \in Attributes}

\* The input lists eval is called with: the first k handles of the module,
\* for every k up to MaxInputs.
InputLists ==
    {[i \in 1..k |-> i] :
        k \in 0..(IF Len(module) < MaxInputs THEN Len(module) ELSE MaxInputs)}

InitNode ==
    /\ GraphNew
    /\ node \in NodeValues
    /\ module = <<>>
    /\ ret = NoRet
    /\ superseded = {}

\* module.lit(..), as the callers of eval do to obtain input handles
Lit ==
    /\ Len(module) < MaxExprs
    /\ module' = ModuleLit(module, "3.")
    /\ UNCHANGED <<nodes, slots, last, panicked, node, ret, superseded>>

\* node.eval(&mut module, inputs)
Eval ==
    /\ \E inputs \in InputLists :
        LET r == NodeEval(node, module, inputs) IN
        /\ Len(r.module) <= MaxExprs
        /\ module' = r.module
        /\ ret' = [op |-> "eval", inputs |-> inputs,
                   ok |-> r.ok, outputs |-> r.outputs]
    /\ UNCHANGED <<nodes, slots, last, panicked, node, superseded>>

\* node.set_attr(a)
SetAttr ==
    /\ node.kind = "Attribute"
    /\ \E a \in Attributes : node' = set_attr(node, a)
    /\ UNCHANGED <<nodes, slots, last, panicked, module, ret, superseded>>

NextNode == Lit \/ Eval \/ SetAttr

SpecNode == InitNode /\ [][NextNode]_vars

(* The calls of a client that keeps the usage discipline of the end-to-end *)
(* scenario: link(output, input) is only called when `input` has no link   *)
(* or is already linked to `output`.                                       *)

LinkDisciplined ==
    /\ ~panicked
    /\ \E output \in OutputIds, input \in InputIds :
        /\ \/ slots[input].linked_slots = <<>>
           \/ slots[input].linked_slots = <<output>>
        /\ LinkCall(output, input)
    /\ UNCHANGED <<node, module, ret, superseded>>

NextDisciplined == AddNode \/ LinkDisciplined \/ Unlink \/ UnlinkAll

SpecDisciplined == Init /\ [][NextDisciplined]_vars

(* The calls of the correct client, with the history of one superseded     *)
(* source kept in `superseded`: any link call that supersedes a source may  *)
(* start following that pair when none is followed, and the pair is dropped *)
(* when the old source stops listing the input.                             *)

\* The pairs <<O1, I>> that link(output, input) supersedes: I is `input`,
\* its link is O1, and O1 is not `output`.
Superseding(output, input) ==
    {<<o1, input>> : o1 \in {o \in OutputIds :
                                o # output /\ slots[input].linked_slots = <<o>>}}

\* The pairs <<O1, I>> of `pairs` where O1 lists I in the arena s.
StillListed(s, pairs) ==
    {p \in pairs : Contains(s[p[1]].linked_slots, p[2])}

\* The node values added here: one with two inputs and an output, one with
\* a single output and one with two outputs.
TrackedNodes ==
    {MkNode("Add", "none"), MkNode("Attribute", "position"), MkNode("Time", "none")}

AddNodeTracked ==
    /\ ~panicked
    /\ Len(nodes) < MaxNodes
    /\ \E n \in TrackedNodes :
        /\ Len(slots) + Len(NodeSlots(n)) <= MaxSlots
        /\ AddNodeCall(n)
    /\ UNCHANGED <<node, module, ret, superseded>>

LinkTracked ==
    /\ ~panicked
    /\ \E output \in OutputIds, input \in InputIds :
        /\ LinkCall(output, input)
        /\ superseded' \in
               IF superseded # {}
               THEN {StillListed(slots', superseded)}
               ELSE {Superseding(output, input), {}}
    /\ UNCHANGED <<node, module, ret>>

UnlinkTracked ==
    /\ ~panicked
    /\ \E output \in OutputIds, input \in InputIds :
        /\ UnlinkCall(output, input)
        /\ superseded' = StillListed(slots', superseded)
    /\ UNCHANGED <<node, module, ret>>

UnlinkAllTracked ==
    /\ ~panicked
    /\ \E slot_id \in SlotIds :
        /\ UnlinkAllCall(slot_id)
        /\ superseded' = StillListed(slots', superseded)
    /\ UNCHANGED <<node, module, ret>>

NextTracked == AddNodeTracked \/ LinkTracked \/ UnlinkTracked \/ UnlinkAllTracked

SpecTracked == Init /\ [][NextTracked]_vars

(* Name lookups on a graph of nodes.  Besides the built-in variants the     *)
(* client adds nodes of its own Node implementation whose slots share one   *)
(* name.  `last` records the lookup and its arguments, `ret` what it        *)
(* returned.                                                                *)

\* Node::slots of a client's Node implementation: two inputs and two outputs,
\* all of one name.
ClientNode ==
    [kind |-> "Client",
     attr |-> "none",
     slots |-> << SlotDefOutput("in", "None"), SlotDefInput("in", "None"),
                  SlotDefInput("in", "None"), SlotDefOutput("in", "None") >>]

\* The names looked up: those of the slots of the nodes added, and one that
\* no slot has.
LookupNames ==
    UNION {{n.slots[k].name : k \in 1..Len(n.slots)} : n \in NodeInputs \cup {ClientNode}}
        \cup {"missing"}

\* The NodeIds looked up: those handed out and the first one not handed out.
LookupNodeIds == 1..(Len(nodes) + 1)

AddNodeLookup ==
    /\ Len(nodes) < MaxNodes
    /\ \E n \in NodeInputs \cup {ClientNode} :
        /\ Len(slots) + Len(NodeSlots(n)) <= MaxSlots
        /\ AddNodeCall(n)
    /\ ret' = NoRet
    /\ UNCHANGED <<node, module, superseded>>

InputSlot ==
    /\ \E node_id \in LookupNodeIds, name \in LookupNames :
        /\ last' = [op |-> "input_slot", a |-> node_id, b |-> 0]
        /\ ret' = [op |-> "input_slot", name |-> name,
                   value |-> input_slot(slots, node_id, name)]
    /\ UNCHANGED <<nodes, slots, panicked, node, module, superseded>>

OutputSlot ==
    /\ \E node_id \in LookupNodeIds, name \in LookupNames :
        /\ last' = [op |-> "output_slot", a |-> node_id, b |-> 0]
        /\ ret' = [op |-> "output_slot", name |-> name,
                   value |-> output_slot(slots, node_id, name)]
    /\ UNCHANGED <<nodes, slots, panicked, node, module, superseded>>

GetSlotId ==
    /\ \E name \in LookupNames :
        /\ last' = [op |-> "get_slot_id", a |-> 0, b |-> 0]
        /\ ret' = [op |-> "get_slot_id", name |-> name,
                   value |-> get_slot_id(slots, name)]
    /\ UNCHANGED <<nodes, slots, panicked, node, module, superseded>>

NextLookup == AddNodeLookup \/ InputSlot \/ OutputSlot \/ GetSlotId

SpecLookup == Init /\ [][NextLookup]_vars

----------------------------------------------------------------------------
(* Properties.                                                             *)

\* The link set of the slot with the given id.
Links(id) == slots[id].linked_slots

\* How many entries of seq equal x.
Count(seq, x) == Cardinality({k \in 1..Len(seq) : seq[k] = x})

\* Some output other than `output` lists `input`.
ListedElsewhere(output, input) ==
    \E o2 \in OutputIds : o2 # output /\ Contains(Links(o2), input)

\* C1: after any sequence of completed add_node, link, unlink and unlink_all
\* calls, for every output slot O and input slot I, O's link set contains I
\* if and only if I's single link is O.
C1_BidirectionalAgreement ==
    ~panicked =>
        \A o \in OutputIds, i \in InputIds :
            Contains(Links(o), i) <=> Links(i) = <<o>>

\* C2: immediately after link(O, I) completes, O's link set contains I
\* exactly once and I's link set is exactly <<O>>.
C2_LinkEstablishesEdge ==
    (last.op = "link" /\ ~panicked) =>
        /\ Count(Links(last.a), last.b) = 1
        /\ Links(last.b) = <<last.a>>

\* link(O, I) has completed on an input that another output still lists, and
\* O fans out to two inputs.
C2_Witness ==
    /\ last.op = "link"
    /\ ~panicked
    /\ Len(Links(last.a)) = 2
    /\ ListedElsewhere(last.a, last.b)

\* C3: link is idempotent: in the state reached by link(O, I), calling
\* link(O, I) again completes and leaves every slot as it is, so O's link set
\* does not grow.
C3_LinkIdempotent ==
    (last.op = "link" /\ ~panicked) =>
        /\ link(slots, last.a, last.b) = Done(slots)
        /\ Len(link(slots, last.a, last.b).slots[last.a].linked_slots)
               = Len(Links(last.a))

\* link(O, I) has completed and O lists I after another input.
C3_Witness ==
    /\ last.op = "link"
    /\ ~panicked
    /\ Len(Links(last.a)) = 2
    /\ Links(last.a)[2] = last.b
    /\ Links(last.b) = <<last.a>>

\* link(O2, I) on an input linked to O1 # O2: afterwards I's single link is
\* O2 and O1 still lists I.
C4_LinkStep ==
    (last'.op = "link" /\ ~panicked') =>
        \A o1 \in OutputIds :
            (o1 # last'.a /\ slots[last'.b].linked_slots = <<o1>>) =>
                /\ slots'[last'.b].linked_slots = <<last'.a>>
                /\ Contains(slots'[o1].linked_slots, last'.b)

\* C4 as stated: when input I is linked to O1 and link(O2, I) is called with
\* O2 # O1, afterwards I's single link is O2 and O1 still lists I; and from
\* then on O1 stops listing I only by unlink(O1, I) or unlink_all(O1).
C4_OriginalStep ==
    /\ C4_LinkStep
    /\ \A p \in superseded :
          ~Contains(slots'[p[1]].linked_slots, p[2]) =>
              \/ last' = [op |-> "unlink", a |-> p[1], b |-> p[2]]
              \/ last' = [op |-> "unlink_all", a |-> p[1], b |-> 0]

C4_OnlyUnlinkOfOldSource == [][C4_OriginalStep]_vars

\* C4 amended: when input I is linked to O1 and link(O2, I) is called with
\* O2 # O1, afterwards I's single link is O2 and O1 still lists I; and from
\* then on O1 stops listing I only by unlink(O1, I) or unlink_all(O1), or,
\* once I has been linked to O1 again, by unlink_all(I); while I's link is not
\* O1, only by the first two.
C4_Step ==
    /\ C4_LinkStep
    /\ \A p \in superseded :
          ~Contains(slots'[p[1]].linked_slots, p[2]) =>
              \/ last' = [op |-> "unlink", a |-> p[1], b |-> p[2]]
              \/ last' = [op |-> "unlink_all", a |-> p[1], b |-> 0]
              \/ /\ slots[p[2]].linked_slots = <<p[1]>>
                 /\ last' = [op |-> "unlink_all", a |-> p[2], b |-> 0]

C4_SupersedeKeepsOldSource == [][C4_Step]_vars

\* O1 was superseded at I by link(O2, I) and still lists I, O2 lists I too,
\* and I has since been linked to O1 again by the last call.
C4_Witness ==
    /\ last.op = "link"
    /\ ~panicked
    /\ <<last.a, last.b>> \in superseded
    /\ Links(last.b) = <<last.a>>
    /\ ListedElsewhere(last.a, last.b)

\* C5: unlink(O, I) called when O's link set does not contain I changes no
\* slot; called when O's link set contains I, afterwards O's link set does
\* not contain I and I's link set is empty.
C5_Step ==
    (last'.op = "unlink" /\ ~panicked') =>
        IF Contains(slots[last'.a].linked_slots, last'.b)
        THEN /\ ~Contains(slots'[last'.a].linked_slots, last'.b)
             /\ slots'[last'.b].linked_slots = <<>>
        ELSE slots' = slots

C5_UnlinkEffect == [][C5_Step]_vars

\* unlink(O, I) has completed as a no-op on an input linked to another output.
C5_Witness ==
    /\ last.op = "unlink"
    /\ ~panicked
    /\ ~Contains(Links(last.a), last.b)
    /\ Len(Links(last.b)) = 1
    /\ Links(last.b)[1] # last.a

\* C6: after unlink_all(S) the link set of S is empty and no other slot of
\* the graph has S in its link set.
C6_UnlinkAllClears ==
    (last.op = "unlink_all" /\ ~panicked) =>
        /\ Links(last.a) = <<>>
        /\ \A id \in SlotIds : ~Contains(Links(id), last.a)

\* C7: every input slot has at most one entry in its link set, and that
\* entry is the id of an output slot.
C7_InputSingleSource ==
    \A i \in InputIds :
        /\ Len(Links(i)) <= 1
        /\ \A k \in 1..Len(Links(i)) :
              InRange(slots, Links(i)[k]) /\ is_output(slots[Links(i)[k]])

\* link has replaced the source of an input that was already linked.
C7_Witness ==
    /\ last.op = "link"
    /\ Len(Links(last.b)) = 1
    /\ ListedElsewhere(last.a, last.b)
    /\ \E i \in InputIds : i # last.b /\ Len(Links(i)) = 1

\* C8: the link set of every output slot contains no SlotId twice.
C8_OutputNoDuplicates ==
    \A o \in OutputIds :
        \A j, k \in 1..Len(Links(o)) : Links(o)[j] = Links(o)[k] => j = k

\* link(O, I) has completed on a pair O already listed, in a fan-out of two.
C8_Witness ==
    /\ last.op = "link"
    /\ Len(Links(last.a)) = 2
    /\ Links(last.a)[1] = last.b

\* C9: every SlotId in an output slot's link set references an input slot
\* owned by a node other than the node that owns the output slot.
C9_EdgesToOtherNodes ==
    ~panicked =>
        \A o \in OutputIds :
            \A k \in 1..Len(Links(o)) :
                /\ InRange(slots, Links(o)[k])
                /\ is_input(slots[Links(o)[k]])
                /\ slots[Links(o)[k]].node_id # slots[o].node_id

\* C10: for every node added, slots(node_id) returns one SlotId per declared
\* slot definition, in declaration order, and none of them is returned for
\* another node, whatever was added afterwards.
C10_NodeSlots ==
    \A n \in 1..Len(nodes) :
        LET ids == node_slots(slots, n) IN
        /\ Len(ids) = Len(NodeSlots(nodes[n]))
        /\ \A k \in 1..Len(ids) :
              /\ InRange(slots, ids[k])
              /\ slots[ids[k]].def = NodeSlots(nodes[n])[k]
        /\ \A m \in 1..Len(nodes) :
              m # n => \A k \in 1..Len(ids) :
                          ~Contains(node_slots(slots, m), ids[k])

\* Three nodes were added, the second one with two slots.
C10_Witness ==
    /\ last.op = "add_node"
    /\ Len(nodes) = 3
    /\ node_slots(slots, 2) = <<2, 3>>
    /\ node_slots(slots, 3) = <<4>>

\* C11: identifiers are dense, one-based and never reused: the k-th add_node
\* call returns NodeId k, the slot at arena place i (one-based) has SlotId i,
\* every id handed out indexes inside its arena, and no step changes the id
\* or the owner of an existing slot.
C11_Dense ==
    /\ \A i \in 1..Len(slots) :
          /\ slots[i].id = i
          /\ slots[i].node_id \in 1..Len(nodes)
          /\ \A k \in 1..Len(Links(i)) : InRange(slots, Links(i)[k])
    /\ last.op = "add_node" => last.a = Len(nodes)

C11_Step ==
    /\ Len(nodes') >= Len(nodes)
    /\ Len(slots') >= Len(slots)
    /\ \A i \in 1..Len(slots) :
          /\ slots'[i].id = slots[i].id
          /\ slots'[i].node_id = slots[i].node_id
    /\ (last'.op = "add_node" /\ nodes' # nodes) => last'.a = Len(nodes) + 1

C11_Identifiers == []C11_Dense /\ [][C11_Step]_vars

\* A second node was added to a graph that already holds a link.
C11_Witness ==
    /\ last.op = "add_node"
    /\ last.a = 2
    /\ Len(slots) = 4
    /\ \E i \in SlotIds : Links(i) # <<>>

\* C14: with every O the id of an output slot the graph handed out, every I
\* the id of an input slot and every S a handed-out slot id, no add_node,
\* link, unlink or unlink_all call panics.
C14_CorrectClientsNeverPanic == ~panicked

\* unlink_all has completed on an input while an edge between two other
\* slots remains.
C14_Witness ==
    /\ last.op = "unlink_all"
    /\ ~panicked
    /\ last.a \in InputIds
    /\ \E o \in OutputIds : Len(Links(o)) = 1 /\ Links(o)[1] # last.a
    /\ \E i \in InputIds : Len(Links(i)) = 1

\* The slot without its link set.
SlotIdentity(slot) == [node_id |-> slot.node_id, id |-> slot.id, def |-> slot.def]

\* C18: link, unlink and unlink_all change link sets only: the nodes, the
\* number of slots and every slot's owner, id, name and direction are as
\* before the call.
C18_Step ==
    (last'.op \in {"link", "unlink", "unlink_all"}) =>
        /\ nodes' = nodes
        /\ Len(slots') = Len(slots)
        /\ \A i \in 1..Len(slots) : SlotIdentity(slots'[i]) = SlotIdentity(slots[i])

C18_LinkOpsFrame == [][C18_Step]_vars

\* unlink(O, I) has completed and removed an edge of a graph of two nodes.
C18_Witness ==
    /\ last.op = "unlink"
    /\ Len(nodes) = 2
    /\ Len(slots) = 4
    /\ Links(last.b) = <<>>
    /\ \E i \in InputIds : Links(i) # <<>>

\* C19: add_node only appends: one more node, as many more slots as the node
\* declares slot definitions, every new slot with an empty link set and owned
\* by the new node, every older slot unchanged.
C19_Step ==
    (last'.op = "add_node" /\ nodes' # nodes) =>
        /\ Len(nodes') = Len(nodes) + 1
        /\ SubSeq(nodes', 1, Len(nodes)) = nodes
        /\ Len(slots') = Len(slots) + Len(NodeSlots(nodes'[Len(nodes')]))
        /\ SubSeq(slots', 1, Len(slots)) = slots
        /\ \A i \in (Len(slots) + 1)..Len(slots') :
              /\ slots'[i].linked_slots = <<>>
              /\ slots'[i].node_id = last'.a
              /\ slots'[i].def = NodeSlots(nodes'[Len(nodes')])[i - Len(slots)]

C19_AddNodeAppends == [][C19_Step]_vars

\* A node was added to a graph whose older slots are linked.
C19_Witness ==
    /\ last.op = "add_node"
    /\ Len(nodes) = 2
    /\ Links(1) # <<>>
    /\ Links(3) # <<>>
    /\ Links(4) = <<>>

\* The id is in range and its slot is an output / an input slot.
ValidOutput(id) == InRange(slots, id) /\ is_output(slots[id])
ValidInput(id) == InRange(slots, id) /\ is_input(slots[id])

\* C12: link(output, input) panics whenever output is not the id of an
\* in-range output slot or input is not the id of an in-range input slot, and
\* completes in every other case.
C12_LinkPanicsIffInvalid ==
    last.op = "link" =>
        (panicked <=> ~(ValidOutput(last.a) /\ ValidInput(last.b)))

\* link was called with a valid output and, as input, the id of an output
\* slot, and panicked.
C12_Witness ==
    /\ last.op = "link"
    /\ panicked
    /\ ValidOutput(last.a)
    /\ InRange(slots, last.b)
    /\ is_output(slots[last.b])

\* C13: unlink(output, input) panics whenever output is not the id of an
\* in-range output slot or input is not the id of an in-range input slot.
C13_UnlinkPanicsOnInvalid ==
    (last.op = "unlink" /\ ~(ValidOutput(last.a) /\ ValidInput(last.b))) =>
        panicked

\* The input count and the output count the claims give for each variant.
ClaimedArity(kind) ==
    CASE kind \in {"Add", "Sub", "Mul", "Div"} -> 2
      [] kind \in {"Attribute", "Time"} -> 0
      [] kind = "Normalize" -> 1
ClaimedOutputs(kind) == IF kind = "Time" THEN 2 ELSE 1

\* C15: for every variant and every input count n, eval returns an error and
\* no output when n differs from the variant's arity, and otherwise succeeds
\* with one output expression, or two for Time: time, then delta_time.
C15_EvalArity ==
    ret.op = "eval" =>
        IF Len(ret.inputs) # ClaimedArity(node.kind)
        THEN ~ret.ok /\ ret.outputs = <<>>
        ELSE /\ ret.ok
             /\ Len(ret.outputs) = ClaimedOutputs(node.kind)
             /\ \A k \in 1..Len(ret.outputs) : ret.outputs[k] \in 1..Len(module)
             /\ node.kind = "Time" =>
                   /\ module[ret.outputs[1]] = Expr("builtin", "time", <<>>)
                   /\ module[ret.outputs[2]] = Expr("builtin", "delta_time", <<>>)

\* A Normalize node was evaluated with one input and returned one output.
C15_Witness ==
    /\ ret.op = "eval"
    /\ node.kind = "Normalize"
    /\ Len(ret.inputs) = 1
    /\ ret.ok
    /\ module[ret.outputs[1]] = Expr("normalize", "none", ret.inputs)

\* A module holding k literals, and the handles of all of them.
Lits(k) == [i \in 1..k |-> Expr("lit", "3.", <<>>)]
Handles(k) == [i \in 1..k |-> i]

\* C16: for a node of every variant added to a graph, input_slots(node) has
\* as many entries as the input count eval accepts and output_slots(node) as
\* many as eval returns on success.
C16_SlotCountsMatchEval ==
    \A n \in 1..Len(nodes) :
        \A k \in 0..MaxInputs :
            LET r == NodeEval(nodes[n], Lits(k), Handles(k)) IN
            /\ r.ok <=> k = Len(input_slots(slots, n))
            /\ r.ok => Len(r.outputs) = Len(output_slots(slots, n))

\* C20: at every point of an AttributeNode's life, its single output slot
\* definition has the name and the value type of the attribute attr()
\* returns.
C20_AttributeSlotFollowsAttr ==
    node.kind = "Attribute" =>
        /\ Len(NodeSlots(node)) = 1
        /\ NodeSlots(node)[1].dir = "Output"
        /\ NodeSlots(node)[1].name = AttributeName(attr(node))
        /\ NodeSlots(node)[1].value_type = AttributeValueType(attr(node))

\* The slots a lookup recorded in `last` and `ret` chooses among.
Matches ==
    {id \in SlotIds :
        /\ slots[id].def.name = ret.name
        /\ ret.op = "input_slot" =>
               slots[id].node_id = last.a /\ is_input(slots[id])
        /\ ret.op = "output_slot" =>
               slots[id].node_id = last.a /\ is_output(slots[id])}

\* C17: input_slot(n, name) returns the lowest SlotId among the input slots
\* of node n that have the name, output_slot(n, name) the lowest among the
\* output slots of n, get_slot_id(name) the lowest among all slots of that
\* name, and each returns none when no slot matches.
\* None of the three changes the graph.
C17_Lowest ==
    ret.op \in {"input_slot", "output_slot", "get_slot_id"} =>
        IF Matches = {}
        THEN ret.value = None
        ELSE /\ ret.value \in Matches
             /\ \A id \in Matches : ret.value <= id

C17_Step ==
    last'.op \in {"input_slot", "output_slot", "get_slot_id"} =>
        nodes' = nodes /\ slots' = slots

C17_FirstWins == []C17_Lowest /\ [][C17_Step]_vars

\* input_slot has returned the first of two input slots of one node that
\* share the name, the node having an output slot of that name before them.
C17_Witness ==
    /\ ret.op = "input_slot"
    /\ Cardinality(Matches) = 2
    /\ ret.value \in Matches
    /\ \E id \in SlotIds :
        /\ id < ret.value
        /\ slots[id].node_id = last.a
        /\ slots[id].def.name = ret.name

\* The outputs that list the input i.
Upstream(i) == {o \in OutputIds : Contains(Links(o), i)}

\* C21: when link(O, I) is only called on an input I that is unlinked or
\* already linked to O, every state reached by add_node, link, unlink and
\* unlink_all has O list I iff I's link is O, and an input that was linked
\* keeps exactly one upstream link until an unlink or unlink_all of that edge.
C21_Consistent ==
    /\ \A o \in OutputIds, i \in InputIds :
          Contains(Links(o), i) <=> Links(i) = <<o>>
    /\ \A i \in InputIds :
          Links(i) # <<>> =>
              /\ Len(Links(i)) = 1
              /\ Cardinality(Upstream(i)) = 1
              /\ \A o \in Upstream(i) : Count(Links(o), i) = 1

C21_Step ==
    /\ last'.op = "link" => slots'[last'.b].linked_slots = <<last'.a>>
    /\ \A i \in InputIds :
          ( /\ slots[i].linked_slots # <<>>
            /\ slots'[i].linked_slots # slots[i].linked_slots ) =>
              /\ slots'[i].linked_slots = <<>>
              /\ \/ last' = [op |-> "unlink", a |-> slots[i].linked_slots[1], b |-> i]
                 \/ last' = [op |-> "unlink_all", a |-> slots[i].linked_slots[1], b |-> 0]
                 \/ last' = [op |-> "unlink_all", a |-> i, b |-> 0]

C21_DisciplinedAgreement == []C21_Consistent /\ [][C21_Step]_vars

\* link(O, I) has completed on an unlinked input I, O now fans out to two
\* inputs whose links are both O, and the graph has another output.
C21_Witness ==
    /\ last.op = "link"
    /\ Len(Links(last.a)) = 2
    /\ Links(last.a)[2] = last.b
    /\ \A k \in 1..2 : Links(Links(last.a)[k]) = <<last.a>>
    /\ \E o \in OutputIds : o # last.a /\ Links(o) = <<>>

\* C22: unlink(O, I) and unlink_all(O) keep every edge that does not involve
\* O: an input I whose single link is an output O2 other than O before the
\* call still has O2 as its link after it, also when O lists I.
C22_Step ==
    \A i \in InputIds, o2 \in OutputIds :
        ( /\ slots[i].linked_slots = <<o2>>
          /\ o2 # last'.a
          /\ \/ last' = [op |-> "unlink", a |-> last'.a, b |-> i]
             \/ (last'.op = "unlink_all" /\ last'.a \in OutputIds) ) =>
            slots'[i].linked_slots = <<o2>>

C22_UnlinkKeepsOtherEdges == [][C22_Step]_vars

\* C23: a link(output, input) call whose output is a valid output slot and
\* whose input is out of range or not an input slot fails and leaves the
\* link set of every slot as it was before the call.
C23_Step ==
    ( /\ last'.op = "link"
      /\ ValidOutput(last'.a)
      /\ ~ValidInput(last'.b) ) =>
        /\ panicked'
        /\ \A id \in SlotIds : slots'[id].linked_slots = slots[id].linked_slots

C23_FailedLinkChangesNothing == [][C23_Step]_vars

\* The elements of a sequence, and whether it is strictly ascending.
Range(seq) == {seq[k] : k \in 1..Len(seq)}
Ascending(seq) == \A j, k \in 1..Len(seq) : j < k => seq[j] < seq[k]

\* C24: for every node n of the graph, input_slots(n) and output_slots(n) are
\* disjoint, each is in ascending SlotId order, and together they hold
\* exactly the SlotIds of slots(n); for a NodeId of no node, all three are
\* empty.
C24_SlotsPartition ==
    /\ \A n \in 1..Len(nodes) :
          LET ins == input_slots(slots, n)
              outs == output_slots(slots, n)
              all == node_slots(slots, n)
          IN /\ Range(ins) \cap Range(outs) = {}
             /\ Ascending(ins) /\ Ascending(outs) /\ Ascending(all)
             /\ Range(ins) \cup Range(outs) = Range(all)
             /\ Len(ins) + Len(outs) = Len(all)
    /\ \A n \in {Len(nodes) + 1, Len(nodes) + 2} :
          /\ input_slots(slots, n) = <<>>
          /\ output_slots(slots, n) = <<>>
          /\ node_slots(slots, n) = <<>>

\* A node with two inputs and one output follows a node with one output, and
\* an edge joins them.
C24_Witness ==
    /\ Len(nodes) = 2
    /\ input_slots(slots, 2) = <<2, 3>>
    /\ output_slots(slots, 2) = <<4>>
    /\ output_slots(slots, 1) = <<1>>
    /\ input_slots(slots, 1) = <<>>
    /\ Links(2) = <<1>>

====
